---- MODULE Spec2Model ----
(***************************************************************************)
(* FileBasedAIChat: the dialog-file protocol of src/src/dialog_manager.py  *)
(* and the control flow of src/fbac.py.                                    *)
(*                                                                         *)
(* A text is a sequence of tokens.  The literal words the regular          *)
(* expressions look for ("model", "behavior", "Human", "AI") are one token *)
(* each, ":" is a token, " " and "\n" are the two whitespace tokens, and   *)
(* every other token is a word of non-whitespace characters.               *)
(***************************************************************************)
EXTENDS Integers, Sequences, FiniteSets, TLC

(***************************************************************************)
(* Bounds of the model.                                                    *)
(***************************************************************************)
\* The turns of a dialog file the program is first started on.
MaxTurns == 2
\* The fragments the backend yields, over all invocations.
MaxFrags == 2
\* The invocations of the program on one path.
MaxRuns == 2

(***************************************************************************)
(* Literals of the source.                                                 *)
(***************************************************************************)
HUMAN_MARKER == "Human"
AI_MARKER == "AI"
MODEL_KW == "model"
BEHAVIOR_KW == "behavior"
COLON == ":"
SP == " "
NL == "\n"
None == "None"

Markers == {HUMAN_MARKER, AI_MARKER}
Whitespace == {SP, NL}

(***************************************************************************)
(* The configuration files (configs/*.json), read through                  *)
(* load_json_config.  A behavior record is the set of the keys it holds.   *)
(***************************************************************************)
ModelsConfig == {<<"gpt">>}

BehaviorConfig ==
    [n \in {<<"default">>, <<"notemp">>, <<"other">>, <<"empty">>} |->
        CASE n = <<"default">> -> {"description", "temperature"}
          [] n = <<"notemp">> -> {"description"}
          [] n = <<"other">> -> {"note"}
          [] OTHER -> {}]

is_model_valid(model_name) == model_name \in ModelsConfig

is_behavior_valid(behavior_name) == behavior_name \in DOMAIN BehaviorConfig

\* dict.get(key): the value stored under the key, None when the key is absent.
\* The stored value of a key is modelled by the key's own name.
DictGet(record, key) == IF key \in record THEN key ELSE None

(***************************************************************************)
(* Text helpers.                                                           *)
(***************************************************************************)
Min(S) == CHOOSE x \in S : \A y \in S : x <= y

\* "^" under re.MULTILINE: the start of the text or just after a newline.
AtLineStart(t, i) == i = 1 \/ t[i - 1] = NL

\* \s* (greedy) from position j: the first position at or after j that holds
\* no whitespace, Len(t) + 1 when whitespace runs to the end.
SkipWs(t, j) ==
    Min({k \in j..(Len(t) + 1) : k = Len(t) + 1 \/ t[k] \notin Whitespace})

\* \S+ (greedy) from position j: the first position at or after j that holds
\* whitespace, Len(t) + 1 when there is none.
SkipNonWs(t, j) ==
    Min({k \in j..(Len(t) + 1) : k = Len(t) + 1 \/ t[k] \in Whitespace})

\* str.strip(): without leading and trailing whitespace.
Strip(s) ==
    LET keep == {k \in 1..Len(s) : s[k] \notin Whitespace}
    IN  IF keep = {} THEN <<>>
        ELSE SubSeq(s, Min(keep), CHOOSE k \in keep : \A y \in keep : y <= k)

RECURSIVE Concat(_)
Concat(ss) == IF ss = <<>> THEN <<>> ELSE Head(ss) \o Concat(Tail(ss))

(***************************************************************************)
(* MODEL_REGEX and BEHAVIOR_REGEX:  ^word:\s*(\S+)  with re.search under   *)
(* re.MULTILINE.  The first line start holding the word and a colon, after *)
(* which, past any whitespace (newlines included), a non-whitespace run    *)
(* begins.  group(1) is that run.                                          *)
(***************************************************************************)
HeaderMatches(t, word) ==
    {i \in 1..(Len(t) - 1) :
        /\ AtLineStart(t, i)
        /\ t[i] = word
        /\ t[i + 1] = COLON
        /\ SkipWs(t, i + 2) <= Len(t)}

HeaderSearch(t, word) ==
    LET ms == HeaderMatches(t, word)
    IN  IF ms = {} THEN [found |-> FALSE, name |-> <<>>]
        ELSE LET i == Min(ms)
                 s == SkipWs(t, i + 2)
             IN  [found |-> TRUE, name |-> SubSeq(t, s, SkipNonWs(t, s) - 1)]

(***************************************************************************)
(* CONVERSATION_REGEX:                                                     *)
(*   ^(Human|AI):\s*(.+?)(?=\n(?:Human|AI):\s*|\Z)   MULTILINE | DOTALL    *)
(***************************************************************************)
MarkerAt(t, i) ==
    /\ i + 1 <= Len(t)
    /\ AtLineStart(t, i)
    /\ t[i] \in Markers
    /\ t[i + 1] = COLON

\* The lookahead at position p: the end of the text, or a newline followed by
\* a marker and a colon.
Lookahead(t, p) ==
    \/ p = Len(t) + 1
    \/ /\ p + 2 <= Len(t)
       /\ t[p] = NL
       /\ t[p + 1] \in Markers
       /\ t[p + 2] = COLON

\* Where group(2) starts for the marker at i, 0 when the expression does not
\* match there.  \s* takes all the whitespace after the colon; (.+?) needs one
\* character, so when the whitespace runs to the end of the text \s* gives its
\* last character back, and with nothing after the colon there is no match.
ContentStart(t, i) ==
    LET s == SkipWs(t, i + 2)
    IN  IF s <= Len(t) THEN s
        ELSE IF s > i + 2 THEN Len(t)
        ELSE 0

\* Where group(2) ends: (.+?) is lazy, it stops at the first position from
\* which the lookahead holds.
ContentEnd(t, s) == Min({e \in s..Len(t) : Lookahead(t, e + 1)})

TurnMatches(t, pos) ==
    {i \in pos..Len(t) : MarkerAt(t, i) /\ ContentStart(t, i) # 0}

\* pattern.finditer: the matches from left to right, none overlapping; each
\* gives (speaker, group(2).strip()).
RECURSIVE FindTurns(_, _)
FindTurns(t, pos) ==
    LET ms == TurnMatches(t, pos)
    IN  IF ms = {} THEN <<>>
        ELSE LET i == Min(ms)
                 s == ContentStart(t, i)
                 e == ContentEnd(t, s)
             IN  <<[speaker |-> t[i], statement |-> Strip(SubSeq(t, s, e))]>>
                     \o FindTurns(t, e + 1)

(***************************************************************************)
(* The three extraction steps and parse_dialog_file.  Every failure of the *)
(* source is a ValueError; the error kinds below name its messages.        *)
(***************************************************************************)
parse_model_from_dialog(dialog_content) ==
    LET model_match == HeaderSearch(dialog_content, MODEL_KW)
    IN  IF model_match.found
        THEN IF is_model_valid(model_match.name)
             THEN [err |-> "none", model |-> model_match.name]
             ELSE [err |-> "UnsupportedModelError", model |-> <<>>]
        ELSE [err |-> "MissingModelError", model |-> <<>>]

parse_behavior_from_dialog(dialog_content) ==
    LET behavior_match == HeaderSearch(dialog_content, BEHAVIOR_KW)
        fail(e) == [err |-> e, description |-> None, temperature |-> None]
    IN  IF behavior_match.found
        THEN IF is_behavior_valid(behavior_match.name)
             THEN LET behavior_data == BehaviorConfig[behavior_match.name]
                  IN  IF behavior_data # {}
                      THEN [err |-> "none",
                            description |-> DictGet(behavior_data, "description"),
                            temperature |-> DictGet(behavior_data, "temperature")]
                      ELSE fail("CorruptBehaviorDataError")
             ELSE fail("UnsupportedBehaviorError")
        ELSE fail("MissingBehaviorError")

parse_conversation_from_dialog(dialog_content) ==
    LET conversation == FindTurns(dialog_content, 1)
    IN  IF \/ conversation = <<>>
           \/ conversation[Len(conversation)].speaker # HUMAN_MARKER
           \/ conversation[Len(conversation)].statement = <<>>
        THEN [err |-> "EmptyOrMissingFinalTurnError", conversation |-> <<>>]
        ELSE [err |-> "none", conversation |-> conversation]

NoDoc ==
    [err |-> "unparsed", ran |-> <<>>, model |-> <<>>, temperature |-> None,
     behavior_description |-> None, conversation |-> <<>>]

\* parse_dialog_file with the conversation step run before the behavior step.
parse_dialog_file_conversation_first(dialog_content) ==
    LET m == parse_model_from_dialog(dialog_content)
        b == parse_behavior_from_dialog(dialog_content)
        c == parse_conversation_from_dialog(dialog_content)
    IN  IF m.err # "none"
        THEN [NoDoc EXCEPT !.err = m.err, !.ran = <<"model">>]
        ELSE IF c.err # "none"
        THEN [NoDoc EXCEPT !.err = c.err, !.ran = <<"model", "conversation">>]
        ELSE IF b.err # "none"
        THEN [NoDoc EXCEPT !.err = b.err,
                           !.ran = <<"model", "conversation", "behavior">>]
        ELSE [err |-> "none",
              ran |-> <<"model", "conversation", "behavior">>,
              model |-> m.model,
              temperature |-> b.temperature,
              behavior_description |-> b.description,
              conversation |-> c.conversation]

\* parse_dialog_file with the behavior step run before the model step.
parse_dialog_file_behavior_first(dialog_content) ==
    LET m == parse_model_from_dialog(dialog_content)
        b == parse_behavior_from_dialog(dialog_content)
        c == parse_conversation_from_dialog(dialog_content)
    IN  IF b.err # "none"
        THEN [NoDoc EXCEPT !.err = b.err, !.ran = <<"behavior">>]
        ELSE IF m.err # "none"
        THEN [NoDoc EXCEPT !.err = m.err, !.ran = <<"behavior", "model">>]
        ELSE IF c.err # "none"
        THEN [NoDoc EXCEPT !.err = c.err,
                           !.ran = <<"behavior", "model", "conversation">>]
        ELSE [err |-> "none",
              ran |-> <<"behavior", "model", "conversation">>,
              model |-> m.model,
              temperature |-> b.temperature,
              behavior_description |-> b.description,
              conversation |-> c.conversation]

\* ran lists the extraction steps that were run, in the order they ran.
parse_dialog_file(dialog_content) ==
    LET m == parse_model_from_dialog(dialog_content)
        b == parse_behavior_from_dialog(dialog_content)
        c == parse_conversation_from_dialog(dialog_content)
    IN  IF m.err # "none"
        THEN [NoDoc EXCEPT !.err = m.err, !.ran = <<"model">>]
        ELSE IF b.err # "none"
        THEN [NoDoc EXCEPT !.err = b.err, !.ran = <<"model", "behavior">>]
        ELSE IF c.err # "none"
        THEN [NoDoc EXCEPT !.err = c.err,
                           !.ran = <<"model", "behavior", "conversation">>]
        ELSE [err |-> "none",
              ran |-> <<"model", "behavior", "conversation">>,
              model |-> m.model,
              temperature |-> b.temperature,
              behavior_description |-> b.description,
              conversation |-> c.conversation]

(***************************************************************************)
(* create_default_dialog_file: the defaults are validated before the file  *)
(* is opened for writing.                                                  *)
(***************************************************************************)
DefaultConfigs ==
    [default_model : {<<"gpt">>, <<"bad">>},
     default_behavior : {<<"default">>, <<"nob">>}]

NoConfig == [default_model |-> <<>>, default_behavior |-> <<>>]

create_default_dialog_file(default_config) ==
    LET model_name == default_config.default_model
        behavior_name == default_config.default_behavior
    IN  IF ~is_model_valid(model_name)
        THEN [err |-> "ConfigurationError", written |-> FALSE, content |-> <<>>]
        ELSE IF ~is_behavior_valid(behavior_name)
        THEN [err |-> "ConfigurationError", written |-> FALSE, content |-> <<>>]
        ELSE [err |-> "none", written |-> TRUE,
              content |-> <<MODEL_KW, COLON, SP>> \o model_name \o <<NL>>
                          \o <<BEHAVIOR_KW, COLON, SP>> \o behavior_name
                          \o <<NL, NL>>
                          \o <<HUMAN_MARKER, COLON, SP>>]

\* What append_ai_response_to_dialog writes before and after the fragments.
AiOpening == <<NL, AI_MARKER, COLON, SP>>
HumanClosing == <<NL, NL, HUMAN_MARKER, COLON, SP>>

(***************************************************************************)
(* Inputs: the dialog files the program is started on, the fragments a     *)
(* backend yields, and what the user types between two invocations.        *)
(***************************************************************************)
ModelLines ==
    {<<>>,
     <<MODEL_KW, COLON, SP, "gpt", NL>>,
     <<MODEL_KW, COLON, SP, "bad", NL>>,
     <<MODEL_KW, COLON, NL>>}

BehaviorLines ==
    {<<>>} \cup
    {<<BEHAVIOR_KW, COLON, SP, n, NL>> :
        n \in {"default", "nob", "notemp", "other", "empty"}}

\* An empty text and a text of two lines.
Contents == {<<>>, <<"a", NL, "b">>}

Turns == [speaker : Markers, statement : Contents]

TurnSeqs == UNION {[1..n -> Turns] : n \in 0..MaxTurns}

\* The file format: a marker, ": ", the text; a blank line between turns.
RECURSIVE Render(_)
Render(ts) ==
    IF ts = <<>> THEN <<>>
    ELSE <<Head(ts).speaker, COLON, SP>> \o Head(ts).statement
         \o (IF Len(ts) > 1 THEN <<NL, NL>> ELSE <<>>) \o Render(Tail(ts))

InitialFiles ==
    {m \o b \o <<NL>> \o Render(ts) :
        m \in ModelLines, b \in BehaviorLines, ts \in TurnSeqs}

Fragments == {<<"a">>, <<SP>>, <<NL, HUMAN_MARKER, COLON, SP, "b">>}

UserTexts == {<<>>, <<"q">>}

\* The directory part of the path given on the command line: "" for a bare
\* file name.
PathDirs == {"", "dialogs"}

(***************************************************************************)
(* State.                                                                  *)
(***************************************************************************)
VARIABLES
    pathDir,         \* os.path.dirname(file_path)
    dirExists,       \* whether that directory exists
    fileExists,      \* whether the dialog file exists
    disk,            \* the content of the dialog file on disk
    buf,             \* text written to the open file object and not yet flushed
    pc,              \* where main is: start, parse, call, append, loop, exit
    result,          \* how the invocation went so far
    cfgRead,         \* the default configuration create_default_dialog_file read
    dialog_content,  \* the text parse_dialog_file read
    doc,             \* what parse_dialog_file returned or raised
    before,          \* the content on disk when the append began
    yielded,         \* the fragments the sequence has yielded in this append
    run,             \* the number of this invocation
    nYielded,        \* the fragments yielded so far, over all invocations
    prevResult,      \* how the previous invocation ended
    edited,          \* whether the user changed the file since it ended
    prevYielded,     \* the fragments the previous invocation's append wrote
    typed,           \* what the user typed after the previous invocation
    backendCalled    \* whether this invocation called communicate_with_ai_model

vars == <<pathDir, dirExists, fileExists, disk, buf, pc, result, cfgRead,
          dialog_content, doc, before, yielded, run, nYielded, prevResult,
          edited, prevYielded, typed, backendCalled>>

Init ==
    /\ pathDir \in PathDirs
    /\ fileExists \in BOOLEAN
    /\ dirExists \in (IF pathDir = "" \/ fileExists THEN {TRUE} ELSE BOOLEAN)
    /\ disk \in (IF fileExists THEN InitialFiles ELSE {<<>>})
    /\ buf = <<>>
    /\ pc = "start"
    /\ result = "none"
    /\ cfgRead = NoConfig
    /\ dialog_content = <<>>
    /\ doc = NoDoc
    /\ before = <<>>
    /\ yielded = <<>>
    /\ run = 1
    /\ nYielded = 0
    /\ prevResult = "none"
    /\ edited = FALSE
    /\ prevYielded = <<>>
    /\ typed = <<>>
    /\ backendCalled = FALSE

(***************************************************************************)
(* check_or_create_dialog_file, as main calls it.  os.path.exists("") is   *)
(* False and os.makedirs("") raises FileNotFoundError.                     *)
(***************************************************************************)
check_or_create_dialog_file ==
    /\ pc = "start"
    /\ UNCHANGED <<prevYielded, typed, backendCalled>>
    /\ LET directoryExists == pathDir # "" /\ dirExists
       IN  IF ~directoryExists /\ pathDir = ""
           THEN \* os.makedirs("") raises
                /\ result' = "FileNotFoundError"
                /\ pc' = "exit"
                /\ UNCHANGED <<dirExists, fileExists, disk, cfgRead>>
           ELSE /\ dirExists' = TRUE
                /\ IF fileExists
                   THEN /\ result' = "True"
                        /\ pc' = "parse"
                        /\ UNCHANGED <<fileExists, disk, cfgRead>>
                   ELSE \E default_config \in DefaultConfigs :
                          LET made == create_default_dialog_file(default_config)
                          IN  /\ cfgRead' = default_config
                              /\ fileExists' = made.written
                              /\ disk' = made.content
                              /\ result' = IF made.written THEN "False"
                                           ELSE made.err
                              /\ pc' = "exit"
    /\ UNCHANGED <<pathDir, buf, dialog_content, doc, before, yielded, run,
                   nYielded, prevResult, edited>>

(***************************************************************************)
(* main, line 30: parse_dialog_file.                                       *)
(***************************************************************************)
\* main going on to the backend call whatever parse_dialog_file raised.
ParseDialogFileIgnoringFailure ==
    /\ pc = "parse"
    /\ dialog_content' = disk
    /\ doc' = parse_dialog_file(disk)
    /\ pc' = "call"
    /\ UNCHANGED <<pathDir, dirExists, fileExists, disk, buf, result, cfgRead,
                   before, yielded, run, prevResult, edited, nYielded,
                   prevYielded, typed, backendCalled>>

ParseDialogFile ==
    /\ pc = "parse"
    /\ UNCHANGED <<prevYielded, typed, backendCalled>>
    /\ dialog_content' = disk
    /\ doc' = parse_dialog_file(disk)
    /\ IF doc'.err = "none"
       THEN pc' = "call" /\ UNCHANGED result
       ELSE pc' = "exit" /\ result' = doc'.err
    /\ UNCHANGED <<pathDir, dirExists, fileExists, disk, buf, cfgRead,
                   before, yielded, run, prevResult, edited, nYielded>>

(***************************************************************************)
(* main, line 31: the backend call returns a lazy sequence; nothing is     *)
(* requested from it yet.                                                  *)
(***************************************************************************)
Communicate ==
    /\ pc = "call"
    /\ pc' = "append"
    /\ backendCalled' = TRUE
    /\ UNCHANGED <<prevYielded, typed>>
    /\ UNCHANGED <<pathDir, dirExists, fileExists, disk, buf, result,
                   cfgRead, dialog_content, doc, before, yielded, run,
                   prevResult, edited, nYielded>>

(***************************************************************************)
(* append_ai_response_to_dialog.  The file is opened in append mode and    *)
(* the AI marker is written to the file object; write does not flush.      *)
(***************************************************************************)
AppendOpen ==
    /\ pc = "append"
    /\ UNCHANGED <<prevYielded, typed, backendCalled>>
    /\ before' = disk
    /\ yielded' = <<>>
    /\ buf' = AiOpening
    /\ pc' = "loop"
    /\ UNCHANGED <<pathDir, dirExists, fileExists, disk, result, cfgRead,
                   dialog_content, doc, run, prevResult, edited, nYielded>>

\* file.write(chunk) with the flush left out: the chunk stays in the buffer.
WriteWithoutFlush(onDisk, pending, chunk) ==
    [disk |-> onDisk, buf |-> pending \o chunk]

\* file.write(chunk); file.flush(): everything written so far reaches the disk.
WriteAndFlush(onDisk, pending, chunk) ==
    [disk |-> onDisk \o pending \o chunk, buf |-> <<>>]

\* The sequence yields a fragment.  MaxFrags caps the fragments of a behaviour.
AppendChunk ==
    /\ pc = "loop"
    /\ UNCHANGED <<prevYielded, typed, backendCalled>>
    /\ nYielded < MaxFrags
    /\ nYielded' = nYielded + 1
    /\ \E chunk \in Fragments :
         LET w == WriteAndFlush(disk, buf, chunk)
         IN  /\ disk' = w.disk
             /\ buf' = w.buf
             /\ yielded' = Append(yielded, chunk)
    /\ UNCHANGED <<pathDir, dirExists, fileExists, pc, result, cfgRead,
                   dialog_content, doc, before, run, prevResult, edited>>

\* The sequence is exhausted: the closing Human marker is written and the
\* file is closed, which flushes.
AppendFinish ==
    /\ pc = "loop"
    /\ UNCHANGED <<prevYielded, typed, backendCalled>>
    /\ disk' = disk \o buf \o HumanClosing
    /\ buf' = <<>>
    /\ pc' = "exit"
    /\ result' = "appended"
    /\ UNCHANGED <<pathDir, dirExists, fileExists, cfgRead, dialog_content,
                   doc, before, yielded, run, prevResult, edited, nYielded>>

\* The sequence raises (a backend exception outside its own handlers, or the
\* user's interrupt): the with block closes the file, which flushes.
AppendRaise ==
    /\ pc = "loop"
    /\ UNCHANGED <<prevYielded, typed, backendCalled>>
    /\ disk' = disk \o buf
    /\ buf' = <<>>
    /\ pc' = "exit"
    /\ result' = "interrupted"
    /\ UNCHANGED <<pathDir, dirExists, fileExists, cfgRead, dialog_content,
                   doc, before, yielded, run, prevResult, edited, nYielded>>

(***************************************************************************)
(* Between two invocations the user may type after the end of the file;    *)
(* then the program is started again on the same path.                     *)
(***************************************************************************)
Reinvoke ==
    /\ pc = "exit"
    /\ run < MaxRuns
    /\ \E text \in (IF fileExists THEN UserTexts ELSE {<<>>}) :
         /\ disk' = disk \o text
         /\ edited' = (text # <<>>)
         /\ typed' = text
    /\ prevYielded' = yielded
    /\ backendCalled' = FALSE
    /\ run' = run + 1
    /\ prevResult' = result
    /\ pc' = "start"
    /\ result' = "none"
    /\ cfgRead' = NoConfig
    /\ dialog_content' = <<>>
    /\ doc' = NoDoc
    /\ before' = <<>>
    /\ yielded' = <<>>
    /\ UNCHANGED <<pathDir, dirExists, fileExists, buf, nYielded>>

Next ==
    \/ check_or_create_dialog_file
    \/ ParseDialogFile
    \/ Communicate
    \/ AppendOpen
    \/ AppendChunk
    \/ AppendFinish
    \/ AppendRaise
    \/ Reinvoke

Spec == Init /\ [][Next]_vars

(***************************************************************************)
(* The document as the file format defines it: a turn opens with a marker  *)
(* at the start of a line followed by ": ", and its content is the text up *)
(* to the next such marker or the end of the file, trimmed.                *)
(***************************************************************************)
DocMarkers(t) ==
    {i \in 1..(Len(t) - 2) :
        /\ i = 1 \/ t[i - 1] = NL
        /\ t[i] \in {HUMAN_MARKER, AI_MARKER}
        /\ t[i + 1] = COLON
        /\ t[i + 2] = SP}

RECURSIVE DocTurnsFrom(_, _)
DocTurnsFrom(t, i) ==
    LET later == {j \in DocMarkers(t) : j > i}
        stop == IF later = {} THEN Len(t) + 1 ELSE Min(later)
        turn == [speaker |-> t[i], statement |-> Strip(SubSeq(t, i + 2, stop - 1))]
    IN  IF later = {} THEN <<turn>> ELSE <<turn>> \o DocTurnsFrom(t, stop)

DocTurns(t) ==
    IF DocMarkers(t) = {} THEN <<>> ELSE DocTurnsFrom(t, Min(DocMarkers(t)))

\* A line of the text starts with the word and a colon.
HeaderLinePresent(t, word) ==
    \E i \in 1..(Len(t) - 1) :
        /\ i = 1 \/ t[i - 1] = NL
        /\ t[i] = word
        /\ t[i + 1] = COLON

\* parse_dialog_file has just returned or raised: doc is its outcome on
\* dialog_content.
Parsed ==
    /\ doc.err # "unparsed"
    /\ pc = "call" \/ (pc = "exit" /\ result = doc.err)

\* Both header steps succeed on the text that was parsed.
HeadersValid ==
    /\ parse_model_from_dialog(dialog_content).err = "none"
    /\ parse_behavior_from_dialog(dialog_content).err = "none"

EndsAwaitingQuestion(ts) ==
    /\ ts # <<>>
    /\ ts[Len(ts)].speaker = HUMAN_MARKER
    /\ ts[Len(ts)].statement # <<>>

(***************************************************************************)
(* C1.  Interrupted append: when the fragment sequence raises after k      *)
(* fragments, the file holds its previous content, the AI marker and those *)
(* k fragments, with no closing Human marker; and the next parse of that   *)
(* file (the user having changed nothing) fails with the final-turn error. *)
(***************************************************************************)
C1_InterruptedAppend ==
    /\ result = "interrupted" =>
           disk = before \o AiOpening \o Concat(yielded)
    /\ (prevResult = "interrupted" /\ ~edited /\ Parsed) =>
           doc.err = "EmptyOrMissingFinalTurnError"

(***************************************************************************)
(* C2.  Round trip: after an append that ran to exhaustion, scanning the   *)
(* file for turns gives the turns that were parsed before the append, then *)
(* an AI turn holding the trimmed concatenation of the fragments, then a   *)
(* Human turn with empty content.                                          *)
(***************************************************************************)
C2_RoundTrip ==
    result = "appended" =>
        FindTurns(disk, 1) =
            doc.conversation
            \o <<[speaker |-> AI_MARKER, statement |-> Strip(Concat(yielded))],
                 [speaker |-> HUMAN_MARKER, statement |-> <<>>]>>

(***************************************************************************)
(* C3, as claimed.  A file with no model line fails with MissingModelError *)
(* and a file with no behavior line fails with MissingBehaviorError,       *)
(* whatever model its model line names.                                    *)
(***************************************************************************)
C3_AsClaimed ==
    Parsed =>
        /\ ~HeaderLinePresent(dialog_content, MODEL_KW) =>
               doc.err = "MissingModelError"
        /\ (/\ HeaderSearch(dialog_content, MODEL_KW).found
            /\ ~HeaderLinePresent(dialog_content, BEHAVIOR_KW)) =>
               doc.err = "MissingBehaviorError"

(***************************************************************************)
(* C3, amended.  A file with no model line fails with MissingModelError.   *)
(* A file with no behavior line fails with MissingBehaviorError when its   *)
(* model line names a registered model, and with the error of the model    *)
(* step otherwise; the turns never change the error.                       *)
(***************************************************************************)
C3_MissingHeaders ==
    Parsed =>
        LET names == HeaderSearch(dialog_content, MODEL_KW)
        IN  /\ ~HeaderLinePresent(dialog_content, MODEL_KW) =>
                   doc.err = "MissingModelError"
            /\ ~HeaderLinePresent(dialog_content, BEHAVIOR_KW) =>
                   doc.err = IF ~names.found THEN "MissingModelError"
                             ELSE IF names.name \notin ModelsConfig
                                  THEN "UnsupportedModelError"
                                  ELSE "MissingBehaviorError"

C3_Witness ==
    /\ doc.err = "MissingBehaviorError"
    /\ ~HeaderLinePresent(dialog_content, BEHAVIOR_KW)
    /\ EndsAwaitingQuestion(DocTurns(dialog_content))

(***************************************************************************)
(* C4.  With valid headers, parse fails with the final-turn error whenever *)
(* the file has no turn, its last turn is an AI turn or its last Human     *)
(* turn is empty; and a returned conversation is never empty and always    *)
(* ends with a non-empty Human turn.                                       *)
(***************************************************************************)
C4_FinalTurn ==
    (Parsed /\ HeadersValid) =>
        /\ ~EndsAwaitingQuestion(DocTurns(dialog_content)) =>
               doc.err = "EmptyOrMissingFinalTurnError"
        /\ doc.err = "none" => EndsAwaitingQuestion(doc.conversation)

(***************************************************************************)
(* C5.  With valid headers and turns that end with a non-empty Human turn, *)
(* parse succeeds and returns exactly the turns of the file: one entry per *)
(* marker, in order, each with its trimmed content.                        *)
(***************************************************************************)
C5_ExactTurns ==
    (Parsed /\ HeadersValid /\ EndsAwaitingQuestion(DocTurns(dialog_content))) =>
        /\ doc.err = "none"
        /\ doc.conversation = DocTurns(dialog_content)

(***************************************************************************)
(* C6.  check_or_create_dialog_file on an existing file returns True and   *)
(* leaves the content as it is; when it creates the file it returns False; *)
(* and the call right after a creation returns True and changes nothing.   *)
(***************************************************************************)
C6_NeverModifies ==
    [][pc = "start" =>
          /\ fileExists => (result' = "True" /\ fileExists' /\ disk' = disk)
          /\ (~fileExists /\ fileExists') => result' = "False"
          /\ (prevResult = "False" /\ ~edited) =>
                 (result' = "True" /\ disk' = disk)]_vars

(***************************************************************************)
(* C7.  A file whose model name is not in the model registry fails with    *)
(* UnsupportedModelError after the model step alone, whatever its behavior *)
(* line and its turns are; in general the steps run in the order model,    *)
(* behavior, conversation and the error is that of the first failing one.  *)
(***************************************************************************)
C7_ModelFirst ==
    Parsed =>
        LET names == HeaderSearch(dialog_content, MODEL_KW)
            m == parse_model_from_dialog(dialog_content).err
            b == parse_behavior_from_dialog(dialog_content).err
            c == parse_conversation_from_dialog(dialog_content).err
        IN  /\ (names.found /\ names.name \notin ModelsConfig) =>
                   (doc.err = "UnsupportedModelError" /\ doc.ran = <<"model">>)
            /\ doc.err = IF m # "none" THEN m ELSE IF b # "none" THEN b ELSE c
            /\ doc.ran = IF m # "none" THEN <<"model">>
                         ELSE IF b # "none" THEN <<"model", "behavior">>
                         ELSE <<"model", "behavior", "conversation">>

C7_Witness ==
    /\ doc.err = "UnsupportedModelError"
    /\ parse_behavior_from_dialog(dialog_content).err = "MissingBehaviorError"
    /\ parse_conversation_from_dialog(dialog_content).err # "none"

(***************************************************************************)
(* C8, as claimed.  Whenever the appender asks for the next fragment, the  *)
(* file holds what it held before the call, the AI marker and the          *)
(* fragments yielded so far.                                               *)
(***************************************************************************)
C8_AsClaimed ==
    pc = "loop" => disk = before \o AiOpening \o Concat(yielded)

(***************************************************************************)
(* C8, amended.  Once a fragment has been yielded, whenever the appender   *)
(* asks for the next one the file holds what it held before the call, the  *)
(* AI marker and the fragments yielded so far, and nothing is held back;   *)
(* before the first fragment the file holds only what it held before the   *)
(* call, the AI marker waiting in the write buffer.  After a failure the   *)
(* file holds the previous content, the marker and the fragments; after    *)
(* exhaustion it holds the closing Human marker as well.                   *)
(***************************************************************************)
C8_FlushedBeforeNext ==
    /\ (pc = "loop" /\ yielded # <<>>) =>
           (disk = before \o AiOpening \o Concat(yielded) /\ buf = <<>>)
    /\ (pc = "loop" /\ yielded = <<>>) =>
           (disk = before /\ buf = AiOpening)
    /\ result = "interrupted" =>
           (disk = before \o AiOpening \o Concat(yielded) /\ buf = <<>>)
    /\ result = "appended" =>
           (disk = before \o AiOpening \o Concat(yielded) \o HumanClosing
            /\ buf = <<>>)

C8_Witness ==
    /\ pc = "loop"
    /\ Len(yielded) = 2
    /\ yielded[1] # yielded[2]

(***************************************************************************)
(* C9.  When the behavior name is in the registry and its record lacks the *)
(* description or the temperature, parse fails with                        *)
(* CorruptBehaviorDataError; no returned document has an absent            *)
(* description or temperature.                                             *)
(***************************************************************************)
C9_CorruptBehavior ==
    Parsed =>
        LET names == HeaderSearch(dialog_content, BEHAVIOR_KW)
        IN  /\ (/\ parse_model_from_dialog(dialog_content).err = "none"
                /\ names.found
                /\ names.name \in DOMAIN BehaviorConfig
                /\ ~({"description", "temperature"}
                        \subseteq BehaviorConfig[names.name])) =>
                   doc.err = "CorruptBehaviorDataError"
            /\ doc.err = "none" =>
                   (doc.behavior_description # None /\ doc.temperature # None)

(***************************************************************************)
(* C10.  On an absent file check_or_create_dialog_file either fails with a *)
(* configuration error, the defaults it read not being registered, and     *)
(* leaves no file; or, the defaults being registered, writes exactly the   *)
(* model line, the behavior line, a blank line and a Human marker.         *)
(***************************************************************************)
C10_CreateOrFail ==
    [][(pc = "start" /\ ~fileExists) =>
          LET registered == /\ cfgRead'.default_model \in ModelsConfig
                            /\ cfgRead'.default_behavior \in DOMAIN BehaviorConfig
          IN  \/ /\ ~registered
                 /\ cfgRead' \in DefaultConfigs
                 /\ result' = "ConfigurationError"
                 /\ ~fileExists'
              \/ /\ registered
                 /\ result' = "False"
                 /\ fileExists'
                 /\ disk' = <<MODEL_KW, COLON, SP>> \o cfgRead'.default_model
                            \o <<NL, BEHAVIOR_KW, COLON, SP>>
                            \o cfgRead'.default_behavior
                            \o <<NL, NL, HUMAN_MARKER, COLON, SP>>]_vars

(***************************************************************************)
(* C11.  A completed append leaves the file awaiting human input: after an *)
(* append that ran to exhaustion, whatever fragments it wrote (none at all *)
(* and whitespace-only ones included), the file ends with a Human marker   *)
(* with no content; and once the user has typed non-empty text after that  *)
(* marker, parse succeeds, its last turn is a Human turn holding exactly   *)
(* that text, and the turn before it is an AI turn holding the response.   *)
(***************************************************************************)
C11_AwaitingHuman ==
    /\ result = "appended" =>
           /\ Len(disk) >= Len(HumanClosing)
           /\ SubSeq(disk, Len(disk) - Len(HumanClosing) + 1, Len(disk))
                  = HumanClosing
    /\ (prevResult = "appended" /\ typed # <<>> /\ Parsed) =>
           /\ doc.err = "none"
           /\ Len(doc.conversation) >= 2
           /\ doc.conversation[Len(doc.conversation)] =
                  [speaker |-> HUMAN_MARKER, statement |-> Strip(typed)]
           /\ doc.conversation[Len(doc.conversation) - 1] =
                  [speaker |-> AI_MARKER,
                   statement |-> Strip(Concat(prevYielded))]

(***************************************************************************)
(* C12.  Within one invocation of main the dialog file is written only by  *)
(* the creation of an absent file or by an append that follows a           *)
(* successful parse of that invocation.  When the file is created, the     *)
(* invocation ends there: no parse, no backend call, no append.  When the  *)
(* file exists and parse fails, no backend call is made, the invocation    *)
(* ends and the file holds what parse read; the parse step itself never    *)
(* changes the file.                                                       *)
(***************************************************************************)
C12_WritesOnly ==
    [][/\ (pc # "exit" /\ (disk' # disk \/ fileExists' # fileExists)) =>
              \/ /\ pc = "start"
                 /\ ~fileExists
                 /\ fileExists'
                 /\ result' = "False"
              \/ /\ pc = "loop"
                 /\ doc.err = "none"
                 /\ backendCalled
                 /\ dialog_content = before
       /\ result' = "False" =>
              (pc' = "exit" /\ doc' = NoDoc /\ ~backendCalled')
       /\ result = "False" => (pc = "exit" /\ run' = run + 1)
       /\ pc = "parse" => (disk' = disk /\ fileExists' = fileExists)
       /\ doc'.err \notin {"unparsed", "none"} =>
              (pc' = "exit" /\ ~backendCalled' /\ disk' = dialog_content')
       /\ backendCalled' => doc'.err = "none"]_vars

C12_Witness ==
    /\ prevResult = "False"
    /\ pc = "exit"
    /\ doc.err = "EmptyOrMissingFinalTurnError"
    /\ ~backendCalled
    /\ disk = dialog_content

====
